---- MODULE Spec2Model ----
(***************************************************************************)
(* Model of native/jni/core/log_monitor.c: the log daemon's dispatch loop  *)
(* (log_daemon), the acceptor thread (socket_thread), the SIGPIPE handler  *)
(* and the logcat probe (test_logcat), together with their environment:    *)
(* the logcat producer and its pipe, the probe subprocess, the clients of  *)
(* the daemon's socket and the peer of the installed hide connection.      *)
(***************************************************************************)
EXTENDS Integers, Sequences, FiniteSets, TLC

(***************************************************************************)
(* Bounds of the model.                                                    *)
(***************************************************************************)
MaxThreads == 2   \* thread handles that can be live at once
MaxConn    == 2   \* connection descriptors accept4 can hand out at once
MaxPending == 2   \* connections waiting in the listen queue
MaxPipe    == 1   \* complete lines buffered in the logcat pipe

(***************************************************************************)
(* enum { HIDE_EVENT, LOG_EVENT, DEBUG_EVENT } and EVENT_NUM.              *)
(***************************************************************************)
HIDE_EVENT  == 0
LOG_EVENT   == 1
DEBUG_EVENT == 2
EVENT_NUM   == 3
Events      == 0 .. (EVENT_NUM - 1)

(***************************************************************************)
(* Request codes read from a connection.  HIDE_CONNECT is the one case of  *)
(* the switch; DO_NOTHING (sent by monitor_logs) stands for every code     *)
(* that takes the default branch.                                          *)
(***************************************************************************)
HIDE_CONNECT == "HIDE_CONNECT"
DO_NOTHING   == "DO_NOTHING"
Codes        == {HIDE_CONNECT, DO_NOTHING}
NoCode       == "none"   \* a socket_thread that has not called read_int yet

(***************************************************************************)
(* Descriptors.  Descriptor 0 is open before the first accept4 and is      *)
(* never closed: it is the inherited stdin, or else the lowest free        *)
(* descriptor when log_daemon makes its first descriptor, sockfd (line     *)
(* 103).  accept4 hands out the lowest free descriptor of the table;       *)
(* connection descriptors are therefore among 1..MaxConn, and the two log  *)
(* files get the next two numbers.                                         *)
(***************************************************************************)
HeldLowest  == 0
Descriptors == 0 .. MaxConn
ConnFds   == 1 .. MaxConn
LOGFILE   == MaxConn + 1
DEBUG_LOG == MaxConn + 2
Tids      == 1 .. MaxThreads

(***************************************************************************)
(* Log lines are C strings, modelled as sequences of characters.  logcat   *)
(* -v threadtime starts every line with the date or with '-', so " Magisk" *)
(* is never at offset 0 and ss[-1] is a character of the line.             *)
(***************************************************************************)
AmProcStart == <<"a", "m", "_", "p", "r", "o", "c", "_", "s", "t", "a", "r", "t">>
SpMagisk    == <<" ", "M", "a", "g", "i", "s", "k">>
NL          == <<"\n">>

LineProc == <<"I">> \o SpMagisk \o <<" ">> \o AmProcStart \o NL  \* both tags
LineInfo == <<"I">> \o SpMagisk \o NL              \* Magisk, level I
LineDbg  == <<"D">> \o SpMagisk \o NL              \* Magisk, level D
LineCont == <<"-">> \o SpMagisk \o NL              \* "--------- beginning of"-style line
Lines    == {LineProc, LineInfo, LineDbg, LineCont}

\* strstr(hay, needle): the 1-based offset of the first occurrence, 0 for NULL.
strstr(hay, needle) ==
    LET n    == Len(needle)
        hits == {k \in 1 .. (Len(hay) - n + 1) : SubSeq(hay, k, k + n - 1) = needle}
    IN  IF hits = {} THEN 0 ELSE CHOOSE k \in hits : \A j \in hits : k <= j

am_proc_start_filter(log) == strstr(log, AmProcStart) # 0

\* (ss = strstr(log, " Magisk")) && (ss[-1] != 'D') && (ss[-1] != 'V')
magisk_log_filter(log) ==
    LET ss == strstr(log, SpMagisk)
    IN  ss # 0 /\ log[ss - 1] # "D" /\ log[ss - 1] # "V"

magisk_debug_log_filter(log) == strstr(log, AmProcStart) = 0

\* log_events[i].filter(line)
filter(i, log) ==
    CASE i = HIDE_EVENT  -> am_proc_start_filter(log)
      [] i = LOG_EVENT   -> magisk_log_filter(log)
      [] i = DEBUG_EVENT -> magisk_debug_log_filter(log)

\* (variant: the test looks at line[1])
IsContinuationSecond(log) == log[2] = "-"

\* line[0] == '-'
IsContinuation(log) == log[1] = "-"

VARIABLES
    loggable,     \* int loggable
    log_events,   \* log_events[i].fd, by slot
    thread,       \* static pthread_t thread
    newtid,       \* the handle xpthread_create has yet to store in thread
    lock,         \* owner of the mutex: Unlocked, Main or a thread handle
    pc,           \* where log_daemon is
    i,            \* the loop index of the for loops of log_daemon
    line,         \* char line[PIPE_BUF]
    producer,     \* the logcat child: "none", "alive", "zombie", "gone"
    pipe,         \* complete lines written by logcat and not yet read
    probe,        \* the child of test_logcat: "none", "out", "eof", "hang"
    apc,          \* where each socket_thread is ("none": no such thread)
    afd,          \* the local fd of each socket_thread
    acode,        \* the value read_int returned to each socket_thread
    pending,      \* the codes of the connections waiting to be accepted
    open,         \* the descriptors that are open in the daemon
    hup,          \* the connection descriptors whose peer has gone away
    snap,         \* log_events as it was when the pass took the mutex
    wr            \* the write() calls of the current pass, by slot

vars == <<loggable, log_events, thread, newtid, lock, pc, i, line, producer,
          pipe, probe, apc, afd, acode, pending, open, hup, snap, wr>>

\* The owner of the mutex: nobody (PTHREAD_MUTEX_INITIALIZER), the thread
\* running log_daemon, or the handle of a socket_thread.
Unlocked == -1
Main     == 0

NoWrite == [fd |-> -1, data |-> <<>>]
NoSnap  == [e \in Events |-> -1]

\* The static initialisers, then log_daemon up to the while loop: the log
\* file is opened, the debug file only in a build with MAGISK_DEBUG.
Init ==
    /\ loggable = 1
    /\ \E df \in {-1, DEBUG_LOG} :
          /\ log_events = [e \in Events |->
                              CASE e = HIDE_EVENT  -> -1
                                [] e = LOG_EVENT   -> LOGFILE
                                [] e = DEBUG_EVENT -> df]
          /\ open = {HeldLowest, LOGFILE, df} \ {-1}
    /\ thread = -1
    /\ newtid = -1
    /\ lock = Unlocked
    /\ pc = "check"
    /\ i = 0
    /\ line = <<>>
    /\ producer = "none"
    /\ pipe = <<>>
    /\ probe = "none"
    /\ apc = [t \in Tids |-> "none"]
    /\ afd = [t \in Tids |-> -1]
    /\ acode = [t \in Tids |-> NoCode]
    /\ pending = <<>>
    /\ hup = {}
    /\ snap = NoSnap
    /\ wr = [e \in Events |-> NoWrite]

(***************************************************************************)
(* The tests the code makes on descriptors and on the thread handle.       *)
(***************************************************************************)
\* (variant: the test is fd > 1)
WritableAboveOne(fd) == fd > 1

\* log_events[i].fd > 0, the test of the dispatch pass
Writable(fd) == fd > 0

\* (variant: the test is fd == 0)
NoTargetIsZero(fd) == fd = 0

\* log_events[HIDE_EVENT].fd < 0, the test of the re-arm check
NoTarget(fd) == fd < 0

\* thread < 0
NoThread(th) == th < 0

\* (variant: pthread_mutex_lock does not wait)
MutexNeverWaits(who) == TRUE

\* pthread_mutex_lock returns to `who` only when nobody holds the mutex
MutexAvailable(who) == lock = Unlocked

\* (variant: descriptor 0 has been closed and is free for accept4)
FreeFdsWithLowest == Descriptors \ (open \ {HeldLowest})

\* the lowest free descriptor of the table, as accept4 allocates it
FreeFds == Descriptors \ open
LowestFree == CHOOSE fd \in FreeFds : \A g \in FreeFds : fd <= g

\* the socket_thread that xpthread_create starts: the first one not in use
FreeTids == {t \in Tids : apc[t] = "none"}
NewThread == CHOOSE t \in FreeTids : \A u \in FreeTids : t <= u

\* the handle xpthread_create stores in `thread`.  pthread_t is kept in a
\* signed word that the code initialises to -1 and tests with thread < 0:
\* the handles of live threads are taken to be non-negative, as that test
\* presupposes.
NewHandles == {NewThread}

\* what xpthread_create writes through its first argument
HandleStored == newtid

(***************************************************************************)
(* log_daemon                                                              *)
(***************************************************************************)
\* (variant: the test is loggable < 0)
NotLoggableNegative == loggable < 0

\* !loggable
NotLoggable == loggable = 0

\* while (1) { if (!loggable) ... } : choose between teardown and start
CheckLoggable ==
    /\ pc = "check"
    /\ IF NotLoggable
          THEN pc' = "td_close" /\ i' = 0
          ELSE pc' = "start" /\ i' = i
    /\ UNCHANGED <<loggable, log_events, thread, lock, line, producer,
                   pipe, probe, apc, afd, acode, pending, open, hup, snap, wr, newtid>>

\* close(log_events[i].fd), without the mutex
DisableClose ==
    /\ pc = "td_close"
    /\ open' = open \ {log_events[i]}
    /\ hup' = hup \ {log_events[i]}
    /\ pc' = "td_clear"
    /\ UNCHANGED <<loggable, log_events, thread, lock, i, line, producer,
                   pipe, probe, apc, afd, acode, pending, snap, wr, newtid>>

\* log_events[i].fd = -1, without the mutex; return after the last slot
DisableClear ==
    /\ pc = "td_clear"
    /\ log_events' = [log_events EXCEPT ![i] = -1]
    /\ i' = i + 1
    /\ pc' = IF i + 1 < EVENT_NUM THEN "td_close" ELSE "done"
    /\ UNCHANGED <<loggable, thread, lock, line, producer, pipe, probe,
                   apc, afd, acode, pending, open, hup, snap, wr, newtid>>

\* log_pid = exec_command(... "/system/bin/logcat" ...); logs = fdopen(log_fd)
StartLogcat ==
    /\ pc = "start"
    /\ producer' = "alive"
    /\ pipe' = <<>>
    /\ pc' = "fgets"
    /\ UNCHANGED <<loggable, log_events, thread, lock, i, line, probe,
                   apc, afd, acode, pending, open, hup, snap, wr, newtid>>

\* fgets returns a line; if (line[0] == '-') continue;
ReadLine ==
    /\ pc = "fgets"
    /\ pipe # <<>>
    /\ line' = Head(pipe)
    /\ pipe' = Tail(pipe)
    /\ pc' = IF IsContinuation(Head(pipe)) THEN "fgets" ELSE "lock"
    /\ UNCHANGED <<loggable, log_events, thread, lock, i, producer, probe,
                   apc, afd, acode, pending, open, hup, snap, wr, newtid>>

\* (variant: the stream ends as soon as its writer has gone)
WriterClosed == producer \in {"zombie", "gone"}

\* end of file on the stream: the pipe is drained and its write end is closed
AtEOF == pipe = <<>> /\ producer \in {"zombie", "gone"}

\* fgets returns NULL
ReadEOF ==
    /\ pc = "fgets"
    /\ AtEOF
    /\ pc' = "cleanup"
    /\ UNCHANGED <<loggable, log_events, thread, lock, i, line, producer,
                   pipe, probe, apc, afd, acode, pending, open, hup, snap, wr, newtid>>

\* pthread_mutex_lock(&lock) before the pass
LockPass ==
    /\ pc = "lock"
    /\ MutexAvailable(Main)
    /\ lock' = Main
    /\ i' = 0
    /\ snap' = log_events
    /\ wr' = [e \in Events |-> NoWrite]
    /\ pc' = "pass"
    /\ UNCHANGED <<loggable, log_events, thread, line, producer, pipe,
                   probe, apc, afd, acode, pending, open, hup, newtid>>

\* the slot the pass goes to after slot i
PassNext ==
    /\ i' = i + 1
    /\ pc' = IF i + 1 < EVENT_NUM THEN "pass" ELSE "rearm"

\* if (log_events[i].fd > 0 && log_events[i].filter(line)) is false
PassSkip ==
    /\ pc = "pass"
    /\ ~(Writable(log_events[i]) /\ filter(i, line))
    /\ PassNext
    /\ UNCHANGED <<loggable, log_events, thread, lock, line, producer,
                   pipe, probe, apc, afd, acode, pending, open, hup, snap, wr, newtid>>

\* write(log_events[i].fd, line, len) to a target that takes it
PassWrite ==
    /\ pc = "pass"
    /\ Writable(log_events[i]) /\ filter(i, line)
    /\ log_events[i] \notin hup
    /\ wr' = [wr EXCEPT ![i] = [fd |-> log_events[i], data |-> line]]
    /\ PassNext
    /\ UNCHANGED <<loggable, log_events, thread, lock, line, producer,
                   pipe, probe, apc, afd, acode, pending, open, hup, snap, newtid>>

\* (variant: the handler closes and clears every slot, as the teardown does)
sigpipe_handler_every_slot ==
    /\ open' = open \ {log_events[e] : e \in Events}
    /\ hup' = hup \ {log_events[HIDE_EVENT]}
    /\ log_events' = [e \in Events |-> -1]

\* sigpipe_handler: close(log_events[HIDE_EVENT].fd); log_events[HIDE_EVENT].fd = -1
sigpipe_handler ==
    /\ open' = open \ {log_events[HIDE_EVENT]}
    /\ hup' = hup \ {log_events[HIDE_EVENT]}
    /\ log_events' = [log_events EXCEPT ![HIDE_EVENT] = -1]

\* write() to a connection whose peer has gone: SIGPIPE is delivered to the
\* writing thread, the handler runs, write returns and the pass goes on
PassBrokenPipe ==
    /\ pc = "pass"
    /\ Writable(log_events[i]) /\ filter(i, line)
    /\ log_events[i] \in hup
    /\ wr' = [wr EXCEPT ![i] = [fd |-> log_events[i], data |-> line]]
    /\ sigpipe_handler
    /\ PassNext
    /\ UNCHANGED <<loggable, thread, lock, line, producer, pipe, probe,
                   apc, afd, acode, pending, snap, newtid>>

\* (variant: the condition forgets the thread handle)
RearmForgetsThread == NoTarget(log_events[HIDE_EVENT])

\* (variant: the condition forgets the hide slot)
RearmForgetsTarget == NoThread(thread)

\* if (thread < 0 && log_events[HIDE_EVENT].fd < 0)
RearmWanted == NoThread(thread) /\ NoTarget(log_events[HIDE_EVENT])

\* xpthread_create(&thread, NULL, socket_thread, NULL), first half: the new
\* socket_thread exists and can run before its handle is stored in `thread`
RearmSpawn ==
    /\ pc = "rearm"
    /\ RearmWanted
    /\ FreeTids # {}
    /\ newtid' \in NewHandles
    /\ apc' = [apc EXCEPT ![NewThread] = "accept"]
    /\ pc' = "rearm_store"
    /\ UNCHANGED <<loggable, log_events, thread, lock, i, line, producer,
                   pipe, probe, afd, acode, pending, open, hup, snap, wr>>

\* xpthread_create, second half: the handle is stored; pthread_detach(thread)
RearmStore ==
    /\ pc = "rearm_store"
    /\ thread' = HandleStored
    /\ newtid' = -1
    /\ pc' = "unlock"
    /\ UNCHANGED <<loggable, log_events, lock, i, line, producer, pipe,
                   probe, apc, afd, acode, pending, open, hup, snap, wr>>

\* the re-arm condition is false
RearmSkip ==
    /\ pc = "rearm"
    /\ ~RearmWanted
    /\ pc' = "unlock"
    /\ UNCHANGED <<loggable, log_events, thread, lock, i, line, producer,
                   pipe, probe, apc, afd, acode, pending, open, hup, snap, wr, newtid>>

\* pthread_mutex_unlock(&lock) after the pass
UnlockPass ==
    /\ pc = "unlock"
    /\ lock' = Unlocked
    /\ snap' = NoSnap
    /\ wr' = [e \in Events |-> NoWrite]
    /\ pc' = "alive"
    /\ UNCHANGED <<loggable, log_events, thread, i, line, producer, pipe,
                   probe, apc, afd, acode, pending, open, hup, newtid>>

\* kill(log_pid, 0) returns 0: the process exists (running or a zombie)
KillExists ==
    /\ pc = "alive"
    /\ producer # "gone"
    /\ pc' = "fgets"
    /\ UNCHANGED <<loggable, log_events, thread, lock, i, line, producer,
                   pipe, probe, apc, afd, acode, pending, open, hup, snap, wr, newtid>>

\* kill(log_pid, 0) fails: break
KillFails ==
    /\ pc = "alive"
    /\ producer = "gone"
    /\ pc' = "cleanup"
    /\ UNCHANGED <<loggable, log_events, thread, lock, i, line, producer,
                   pipe, probe, apc, afd, acode, pending, open, hup, snap, wr, newtid>>

\* (variant: the child is neither killed nor waited for)
ProducerLeft == producer

\* kill(log_pid, SIGTERM); waitpid(log_pid, NULL, 0): the child is no more
ProducerReaped == "none"

\* fclose(logs); log_fd = -1; kill(log_pid, SIGTERM); waitpid(log_pid, NULL, 0)
Cleanup ==
    /\ pc = "cleanup"
    /\ pipe' = <<>>
    /\ producer' = ProducerReaped
    /\ pc' = "test_spawn"
    /\ UNCHANGED <<loggable, log_events, thread, lock, i, line, probe,
                   apc, afd, acode, pending, open, hup, snap, wr, newtid>>

(***************************************************************************)
(* test_logcat, as log_daemon calls it                                     *)
(***************************************************************************)
\* log_pid = exec_command(0, &log_fd, NULL, "logcat", NULL): the child will
\* write something, end without writing, or do neither
TestSpawn ==
    /\ pc = "test_spawn"
    /\ probe' \in {"out", "eof", "hang"}
    /\ pc' = "test_read"
    /\ UNCHANGED <<loggable, log_events, thread, lock, i, line, producer,
                   pipe, apc, afd, acode, pending, open, hup, snap, wr, newtid>>

\* (variant: the result of read is not looked at)
ReadUnchecked == TRUE

\* read(log_fd, buf, sizeof(buf)) == sizeof(buf)
ReadOneByte == probe = "out"

\* if (read(log_fd, buf, 1) != 1) loggable = 0; read blocks on a silent child
TestRead ==
    /\ pc = "test_read"
    /\ probe \in {"out", "eof"}
    /\ loggable' = IF ReadOneByte THEN loggable ELSE 0
    /\ pc' = "test_reap"
    /\ UNCHANGED <<log_events, thread, lock, i, line, producer, pipe,
                   probe, apc, afd, acode, pending, open, hup, snap, wr, newtid>>

\* kill(log_pid, SIGTERM); waitpid(log_pid, NULL, 0); back to the while loop
TestReap ==
    /\ pc = "test_reap"
    /\ probe' = "none"
    /\ pc' = "check"
    /\ UNCHANGED <<loggable, log_events, thread, lock, i, line, producer,
                   pipe, apc, afd, acode, pending, open, hup, snap, wr, newtid>>

(***************************************************************************)
(* socket_thread                                                           *)
(***************************************************************************)
\* fd = accept4(sockfd, ...); read_int(fd)
Accept(t) ==
    /\ apc[t] = "accept"
    /\ pending # <<>>
    /\ FreeFds # {}
    /\ afd' = [afd EXCEPT ![t] = LowestFree]
    /\ acode' = [acode EXCEPT ![t] = Head(pending)]
    /\ pending' = Tail(pending)
    /\ open' = open \cup {LowestFree}
    /\ apc' = [apc EXCEPT ![t] = "switch"]
    /\ UNCHANGED <<loggable, log_events, thread, lock, pc, i, line, producer, pipe, probe, hup, snap, wr, newtid>>

\* (variant: no code is taken for HIDE_CONNECT)
MatchesNoCode(c) == FALSE

\* (variant: every code is taken for HIDE_CONNECT)
MatchesEveryCode(c) == TRUE

\* switch (read_int(fd)) { case HIDE_CONNECT:
IsHideConnect(c) == c = HIDE_CONNECT

\* case HIDE_CONNECT: go for the mutex
SwitchHide(t) ==
    /\ apc[t] = "switch"
    /\ IsHideConnect(acode[t])
    /\ apc' = [apc EXCEPT ![t] = "lock"]
    /\ UNCHANGED <<loggable, log_events, thread, lock, pc, i, line, producer, pipe, probe, afd, acode, pending, open, hup, snap, wr, newtid>>

\* default: close(fd); break; and around the while loop
SwitchDefault(t) ==
    /\ apc[t] = "switch"
    /\ ~IsHideConnect(acode[t])
    /\ open' = open \ {afd[t]}
    /\ hup' = hup \ {afd[t]}
    /\ afd' = [afd EXCEPT ![t] = -1]
    /\ apc' = [apc EXCEPT ![t] = "accept"]
    /\ UNCHANGED <<loggable, log_events, thread, lock, pc, i, line, producer, pipe, probe, acode, pending, snap, wr, newtid>>

\* pthread_mutex_lock(&lock)
AcceptorLock(t) ==
    /\ apc[t] = "lock"
    /\ MutexAvailable(t)
    /\ lock' = t
    /\ apc' = [apc EXCEPT ![t] = "install"]
    /\ UNCHANGED <<loggable, log_events, thread, pc, i, line, producer,
                   pipe, probe, afd, acode, pending, open, hup, snap, wr, newtid>>

\* log_events[HIDE_EVENT].fd = fd
Install(t) ==
    /\ apc[t] = "install"
    /\ log_events' = [log_events EXCEPT ![HIDE_EVENT] = afd[t]]
    /\ apc' = [apc EXCEPT ![t] = "unlock"]
    /\ UNCHANGED <<loggable, thread, lock, pc, i, line, producer, pipe,
                   probe, afd, acode, pending, open, hup, snap, wr, newtid>>

\* pthread_mutex_unlock(&lock)
AcceptorUnlock(t) ==
    /\ apc[t] = "unlock"
    /\ lock' = Unlocked
    /\ apc' = [apc EXCEPT ![t] = "exit"]
    /\ UNCHANGED <<loggable, log_events, thread, pc, i, line, producer,
                   pipe, probe, afd, acode, pending, open, hup, snap, wr, newtid>>

\* thread = -1; return NULL;
AcceptorExit(t) ==
    /\ apc[t] = "exit"
    /\ thread' = -1
    /\ apc' = [apc EXCEPT ![t] = "none"]
    /\ afd' = [afd EXCEPT ![t] = -1]
    /\ acode' = [acode EXCEPT ![t] = NoCode]
    /\ UNCHANGED <<loggable, log_events, lock, pc, i, line, producer,
                   pipe, probe, pending, open, hup, snap, wr, newtid>>

(***************************************************************************)
(* The environment                                                         *)
(***************************************************************************)
\* logcat writes one more complete line to its stdout
ProducerEmit ==
    /\ producer = "alive"
    /\ Len(pipe) < MaxPipe
    /\ \E l \in Lines : pipe' = Append(pipe, l)
    /\ UNCHANGED <<loggable, log_events, thread, lock, pc, i, line, producer, probe, apc, afd, acode, pending, open, hup, snap, wr, newtid>>

\* logcat ends: it stays as a zombie until waitpid, or is reaped at once
\* when the daemon inherited SIGCHLD ignored
ProducerDie ==
    /\ producer = "alive"
    /\ producer' \in {"zombie", "gone"}
    /\ UNCHANGED <<loggable, log_events, thread, lock, pc, i, line, pipe,
                   probe, apc, afd, acode, pending, open, hup, snap, wr, newtid>>

\* a client connects to the daemon's socket and sends its code
\* (monitor_logs sends DO_NOTHING, the hide list's daemon HIDE_CONNECT)
ClientConnect ==
    /\ Len(pending) < MaxPending
    /\ \E c \in Codes : pending' = Append(pending, c)
    /\ UNCHANGED <<loggable, log_events, thread, lock, pc, i, line, producer, pipe, probe, apc, afd, acode, open, hup, snap, wr, newtid>>

\* the descriptors of the subscriber: the one installed in the hide slot and
\* the one a socket_thread is about to install
SubscriberFds ==
    ({log_events[HIDE_EVENT]} \cup
     {afd[t] : t \in {u \in Tids : apc[u] \in {"lock", "install"}}}) \cap open

\* the subscriber closes its end of the connection
PeerHangup ==
    /\ \E fd \in SubscriberFds \ hup : hup' = hup \cup {fd}
    /\ UNCHANGED <<loggable, log_events, thread, lock, pc, i, line, producer, pipe, probe, apc, afd, acode, pending, open, snap, wr, newtid>>

Next ==
    \/ CheckLoggable
    \/ DisableClose
    \/ DisableClear
    \/ StartLogcat
    \/ ReadLine
    \/ ReadEOF
    \/ LockPass
    \/ PassSkip
    \/ PassWrite
    \/ PassBrokenPipe
    \/ RearmSpawn
    \/ RearmStore
    \/ RearmSkip
    \/ UnlockPass
    \/ KillExists
    \/ KillFails
    \/ Cleanup
    \/ TestSpawn
    \/ TestRead
    \/ TestReap
    \/ \E t \in Tids : Accept(t)
    \/ \E t \in Tids : SwitchHide(t)
    \/ \E t \in Tids : SwitchDefault(t)
    \/ \E t \in Tids : AcceptorLock(t)
    \/ \E t \in Tids : Install(t)
    \/ \E t \in Tids : AcceptorUnlock(t)
    \/ \E t \in Tids : AcceptorExit(t)
    \/ ProducerEmit
    \/ ProducerDie
    \/ ClientConnect
    \/ PeerHangup

Spec == Init /\ [][Next]_vars

\* the steps of the thread that runs log_daemon
LoopStep ==
    \/ CheckLoggable \/ DisableClose \/ DisableClear \/ StartLogcat
    \/ ReadLine \/ ReadEOF \/ LockPass \/ PassSkip \/ PassWrite
    \/ PassBrokenPipe \/ RearmSpawn \/ RearmStore \/ RearmSkip \/ UnlockPass
    \/ KillExists \/ KillFails \/ Cleanup \/ TestSpawn \/ TestRead \/ TestReap

\* The same program with the scheduler's guarantee for log_daemon: the
\* thread is not held back for ever while it has a step it can take (a
\* call that has returned, a mutex that is free, data or EOF on a pipe it
\* reads).  Nothing is assumed of logcat, of the probe child, of the
\* clients or of the socket_thread.
FairSpec == Spec /\ WF_vars(LoopStep)

(***************************************************************************)
(* Vocabulary of the properties                                            *)
(***************************************************************************)
\* a slot's target is present when the slot holds a descriptor; -1 is the
\* value the initialisers, the handler and the teardown store for "none"
TargetPresent(fd) == fd # -1

\* the socket_threads that exist
Acceptors == {t \in Tids : apc[t] # "none"}

\* the dispatch loop holds the mutex for a pass
InPass == pc \in {"pass", "rearm", "rearm_store", "unlock"}

\* RUNNING: between the start of logcat and the cleanup
Running == pc \in {"fgets", "lock", "pass", "rearm", "rearm_store", "unlock", "alive"}

\* the write() the pass owes slot e for the line it is dispatching
Owed(e) ==
    IF TargetPresent(snap[e]) /\ filter(e, line)
       THEN [fd |-> snap[e], data |-> line]
       ELSE NoWrite

(***************************************************************************)
(* C1.  For every non-continuation line read while RUNNING and for every   *)
(* slot: the pass writes the line, verbatim, to the slot's target exactly  *)
(* when the target is present and the slot's filter accepts the line; a    *)
(* slot whose target is absent or whose filter rejects gets no write.      *)
(* Checked for the slots the pass has gone through, and for all of them    *)
(* once the pass is over.                                                  *)
(***************************************************************************)
C1_DispatchIffPresentAndFilter ==
    /\ pc = "pass" => \A e \in 0 .. (i - 1) : wr[e] = Owed(e)
    /\ pc \in {"rearm", "rearm_store", "unlock"} =>
          \A e \in Events : wr[e] = Owed(e)

\* a pass that wrote to one slot, skipped a present target whose filter
\* rejected the line, and skipped an absent target whose filter accepted it
C1_Witness ==
    /\ pc = "unlock"
    /\ line = LineInfo
    /\ wr[LOG_EVENT] = [fd |-> LOGFILE, data |-> LineInfo]
    /\ TargetPresent(snap[HIDE_EVENT]) /\ wr[HIDE_EVENT] = NoWrite
    /\ ~TargetPresent(snap[DEBUG_EVENT]) /\ wr[DEBUG_EVENT] = NoWrite

(***************************************************************************)
(* C2.  A line whose first character is '-' is never written to any slot's *)
(* target, whatever the filters say about it and whatever targets exist.   *)
(***************************************************************************)
C2_ContinuationNeverWritten ==
    /\ \A e \in Events : wr[e] # NoWrite => Head(wr[e].data) # "-"
    /\ InPass => Head(line) # "-"

\* a continuation line has been read and dropped although two filters
\* accept it and both their targets are present
C2_Witness ==
    /\ pc = "fgets"
    /\ line = LineCont
    /\ filter(LOG_EVENT, line) /\ TargetPresent(log_events[LOG_EVENT])
    /\ filter(DEBUG_EVENT, line) /\ TargetPresent(log_events[DEBUG_EVENT])

(***************************************************************************)
(* C3.  At most one socket_thread exists in every reachable state, and a   *)
(* step that creates one starts from a state with no socket_thread and     *)
(* with the hide slot's target absent.                                     *)
(***************************************************************************)
C3_AtMostOneAcceptor ==
    /\ [](Cardinality(Acceptors) <= 1)
    /\ [][Acceptors' \ Acceptors # {} =>
             /\ Acceptors = {}
             /\ ~TargetPresent(log_events[HIDE_EVENT])
             /\ pc = "rearm" /\ lock = Main]_vars

\* the re-arm check runs after a broken pipe cleared the hide slot while
\* the socket_thread that installed it has not yet reset the handle
C3_Witness ==
    /\ pc = "rearm"
    /\ ~TargetPresent(log_events[HIDE_EVENT])
    /\ \E t \in Tids : apc[t] = "exit"

(***************************************************************************)
(* C4.  Every read and every write of a slot's target happens while the    *)
(* task doing it holds the mutex: the dispatch pass and its re-arm check,  *)
(* the installation by socket_thread, the SIGPIPE handler (which runs in   *)
(* the writing thread, inside the pass) and the teardown of the disabled   *)
(* daemon.                                                                 *)
(***************************************************************************)
C4_TargetsAccessedUnderGuard ==
    /\ pc \in {"pass", "rearm", "rearm_store", "td_close", "td_clear"} =>
          lock = Main
    /\ \A t \in Tids : apc[t] = "install" => lock = t

(***************************************************************************)
(* C5.  DISABLED is terminal: once loggable is 0 it stays 0, no logcat is  *)
(* started and no line is written to any slot.                             *)
(***************************************************************************)
C5_DisabledIsTerminal ==
    [][loggable = 0 =>
          /\ loggable' = 0
          /\ producer' = "none"
          /\ ~Running'
          /\ wr' = wr /\ \A e \in Events : wr[e] = NoWrite]_vars

\* the loop has returned with loggable 0 while a client is still waiting
\* and a socket_thread is still there
C5_Witness ==
    /\ pc = "done"
    /\ loggable = 0
    /\ pending # <<>>
    /\ Acceptors # {}

(***************************************************************************)
(* C6.  Once the loop has entered DISABLED (the teardown has run and       *)
(* log_daemon has returned), every slot's target is absent, whatever a     *)
(* socket_thread that existed during the teardown does.                    *)
(***************************************************************************)
C6_DisabledHasNoTargets ==
    pc = "done" => \A e \in Events : ~TargetPresent(log_events[e])

(***************************************************************************)
(* C7.  While the loop is RUNNING with the hide slot's target absent and   *)
(* no socket_thread in existence, that stays so until the re-arm check of  *)
(* the next line that is dispatched, and that check creates a              *)
(* socket_thread, ready to accept, and stores its handle before the mutex   *)
(* is released.                                                            *)
(***************************************************************************)
C7_RearmInSamePass ==
    /\ [][(Running /\ ~TargetPresent(log_events[HIDE_EVENT]) /\ Acceptors = {}) =>
             IF pc = "rearm" /\ pc' # "rearm"
                THEN /\ lock = Main /\ lock' = Main
                     /\ pc' = "rearm_store"
                     /\ Cardinality(Acceptors') = 1
                     /\ \A t \in Acceptors' : apc'[t] = "accept" /\ newtid' = t
                ELSE ~TargetPresent(log_events'[HIDE_EVENT]) /\ Acceptors' = {}]_vars
    /\ [][(pc = "rearm_store" /\ pc' # "rearm_store") =>
             /\ lock = Main /\ lock' = Main
             /\ thread' = newtid /\ Acceptors' = {newtid}]_vars

\* the pass that met the broken pipe of an installed subscriber has created
\* the next socket_thread, which is ready to accept
C7_Witness ==
    /\ pc = "unlock"
    /\ TargetPresent(snap[HIDE_EVENT])
    /\ ~TargetPresent(log_events[HIDE_EVENT])
    /\ \E t \in Tids : apc[t] = "accept" /\ thread = t

(***************************************************************************)
(* C8.  A subscriber disconnect, met as a broken pipe when the pass writes *)
(* to the hide slot, sets the hide slot's target to absent and closes that *)
(* descriptor, and changes nothing else: the persist and debug targets     *)
(* stay, the pass goes on and gives the line to the other slots that       *)
(* match, and the loop stays RUNNING with the same logcat.                 *)
(***************************************************************************)
C8_DisconnectClearsOnlyHide ==
    /\ [][(Running /\ TargetPresent(log_events[HIDE_EVENT])
              /\ ~TargetPresent(log_events'[HIDE_EVENT])) =>
          /\ log_events'[LOG_EVENT] = log_events[LOG_EVENT]
          /\ log_events'[DEBUG_EVENT] = log_events[DEBUG_EVENT]
          /\ open' = open \ {log_events[HIDE_EVENT]}
          /\ producer' = producer /\ loggable' = loggable
          /\ lock' = lock /\ thread' = thread /\ apc' = apc
          /\ pc = "pass" /\ pc' = "pass" /\ i = HIDE_EVENT /\ line' = line]_vars
    /\ [](pc \in {"rearm", "rearm_store", "unlock"}
             /\ snap[HIDE_EVENT] # log_events[HIDE_EVENT] =>
             /\ snap[LOG_EVENT] = log_events[LOG_EVENT]
             /\ snap[DEBUG_EVENT] = log_events[DEBUG_EVENT]
             /\ \A e \in {LOG_EVENT, DEBUG_EVENT} : wr[e] = Owed(e))

\* a pass lost its subscriber on a line that the persist slot also takes,
\* and the persist file got the line
C8_Witness ==
    /\ pc = "rearm"
    /\ TargetPresent(snap[HIDE_EVENT])
    /\ ~TargetPresent(log_events[HIDE_EVENT])
    /\ wr[LOG_EVENT] = [fd |-> LOGFILE, data |-> line]
    /\ producer = "alive"

(***************************************************************************)
(* C9.  No socket_thread installs its connection while the dispatch loop   *)
(* is between the first slot evaluation of a pass and the release of the   *)
(* mutex after the re-arm check: within a pass the hide slot changes only  *)
(* by the loop's own broken-pipe clearing.                                 *)
(***************************************************************************)
C9_NoInstallInsidePass ==
    [][InPass =>
          /\ \A t \in Tids : ~(apc[t] = "install" /\ apc'[t] # "install")
          /\ log_events'[HIDE_EVENT] \in {log_events[HIDE_EVENT], -1}]_vars

\* a socket_thread with a subscriber's connection waits for the mutex in
\* the middle of a pass
C9_Witness ==
    /\ pc = "pass" /\ i = LOG_EVENT
    /\ \E t \in Tids : apc[t] = "lock" /\ acode[t] = HIDE_CONNECT

(***************************************************************************)
(* C10.  With several clients asking for HIDE_CONNECT, one connection is   *)
(* installed: an installation always finds the hide slot's target absent   *)
(* and stores the installer's own connection, and while a target is        *)
(* present no socket_thread is accepting or about to install another.      *)
(***************************************************************************)
C10_OneSubscriberInstalled ==
    /\ [][\A t \in Tids : (apc[t] = "install" /\ apc'[t] # "install") =>
             /\ ~TargetPresent(log_events[HIDE_EVENT])
             /\ log_events'[HIDE_EVENT] = afd[t]
             /\ afd[t] \in ConnFds]_vars
    /\ [](TargetPresent(log_events[HIDE_EVENT]) =>
             \A t \in Tids : apc[t] \in {"none", "unlock", "exit"})

\* one subscriber is installed and the socket_thread is gone while a second
\* HIDE_CONNECT client waits in the listen queue
C10_Witness ==
    /\ TargetPresent(log_events[HIDE_EVENT])
    /\ Acceptors = {}
    /\ pending = <<HIDE_CONNECT>>
    /\ Running

(***************************************************************************)
(* C11.  A socket_thread that has read HIDE_CONNECT from the connection it *)
(* accepted takes the mutex, stores exactly that connection, still open,   *)
(* in the hide slot, releases the mutex, resets the thread handle to -1    *)
(* and ends; from the switch on it accepts no further connection.          *)
(***************************************************************************)
C11_HideConnectInstallsAndExits ==
    [][\A t \in Tids :
          /\ (apc[t] = "switch" /\ acode[t] = HIDE_CONNECT /\ apc'[t] # "switch") =>
                 apc'[t] = "lock" /\ afd'[t] = afd[t]
          /\ (apc[t] = "lock" /\ apc'[t] # "lock") =>
                 apc'[t] = "install" /\ afd'[t] = afd[t] /\ lock' = t
          /\ (apc[t] = "install" /\ apc'[t] # "install") =>
                 /\ apc'[t] = "unlock"
                 /\ acode[t] = HIDE_CONNECT
                 /\ log_events'[HIDE_EVENT] = afd[t]
                 /\ afd[t] \in ConnFds /\ afd[t] \in open'
                 /\ \A e \in Events \ {HIDE_EVENT} : log_events'[e] = log_events[e]
          /\ (apc[t] = "unlock" /\ apc'[t] # "unlock") =>
                 apc'[t] = "exit" /\ lock' = Unlocked
          /\ (apc[t] = "exit" /\ apc'[t] # "exit") =>
                 apc'[t] = "none" /\ NoThread(thread') /\ Acceptors' = {}
          /\ apc[t] \in {"lock", "install", "unlock", "exit"} =>
                 Len(pending') >= Len(pending)]_vars

\* the socket_thread has installed a connection and ended, the handle is
\* reset, and the next client is left waiting in the listen queue
C11_Witness ==
    /\ log_events[HIDE_EVENT] \in ConnFds \cap open
    /\ thread = -1
    /\ Acceptors = {}
    /\ pending = <<DO_NOTHING>>
    /\ pc = "fgets"

(***************************************************************************)
(* C12.  A socket_thread that has read a code other than HIDE_CONNECT      *)
(* closes the connection it accepted, which is no slot's target, leaves    *)
(* every slot, the mutex and the thread handle as they are, and is back at *)
(* accept4, still in existence.                                            *)
(***************************************************************************)
C12_OtherCodeClosesAndLoops ==
    [][\A t \in Tids :
          (apc[t] = "switch" /\ acode[t] # HIDE_CONNECT /\ apc'[t] # "switch") =>
             /\ apc'[t] = "accept"
             /\ afd[t] \in open /\ open' = open \ {afd[t]}
             /\ \A e \in Events : log_events[e] # afd[t]
             /\ log_events' = log_events
             /\ thread' = thread /\ lock' = lock /\ t \in Acceptors']_vars

\* a socket_thread has read DO_NOTHING, closed that connection and is
\* accepting again while a subscriber waits in the listen queue
C12_Witness ==
    \E t \in Tids :
       /\ apc[t] = "accept" /\ acode[t] = DO_NOTHING /\ thread = t
       /\ open \cap ConnFds = {}
       /\ pending = <<HIDE_CONNECT>>

(***************************************************************************)
(* C13.  Restart ordering.  logcat and the child of test_logcat never      *)
(* exist together, and logcat is started only when no logcat exists.  A    *)
(* start comes from the check of loggable finding it set; after the first, *)
(* that check comes from the return of test_logcat, whose child is reaped  *)
(* by then and whose read returned its byte if loggable is still set;      *)
(* test_logcat is called from the cleanup, which kills and reaps the       *)
(* previous logcat.                                                        *)
(***************************************************************************)
C13_RestartAfterReapAndProbe ==
    /\ [](producer # "none" => probe = "none" /\ (Running \/ pc = "cleanup"))
    /\ [](pc = "start" => producer = "none" /\ probe = "none")
    /\ [][(pc' = "fgets" /\ ~Running) => pc = "start" /\ producer' = "alive"]_vars
    /\ [][(pc' = "start" /\ pc # "start") => pc = "check" /\ loggable = 1]_vars
    /\ [][(pc' = "check" /\ pc # "check") =>
             pc = "test_reap" /\ probe' = "none" /\ producer = "none"]_vars
    /\ [][(pc' = "test_reap" /\ pc # "test_reap") =>
             pc = "test_read" /\ (loggable' = 1 => probe = "out")]_vars
    /\ [][(pc' = "test_read" /\ pc # "test_read") =>
             pc = "test_spawn" /\ producer = "none"]_vars
    /\ [][(pc' = "test_spawn" /\ pc # "test_spawn") =>
             pc = "cleanup" /\ producer' = "none"]_vars

\* logcat is about to be started again: a line of the previous logcat is
\* still in the buffer, and neither that logcat nor the probe exists
C13_Witness ==
    /\ pc = "start"
    /\ line # <<>>
    /\ producer = "none" /\ probe = "none"
    /\ loggable = 1

(***************************************************************************)
(* C14.  Once log_daemon has returned with logging disabled, every         *)
(* descriptor that was stored in a slot is closed: the only descriptors    *)
(* still open are connections a socket_thread has accepted and not yet     *)
(* stored.                                                                 *)
(***************************************************************************)
C14_TargetsClosedAtDisabled ==
    pc = "done" =>
       open \ {HeldLowest} \subseteq
          {afd[t] : t \in {u \in Tids : apc[u] \in {"switch", "lock", "install"}}}

(***************************************************************************)
(* C15.  test_logcat sets loggable to 0 exactly when its read did not      *)
(* return one byte and leaves it alone otherwise; loggable changes nowhere *)
(* else; and test_logcat returns with its child killed and reaped, so no   *)
(* probe child exists outside the call.                                    *)
(***************************************************************************)
C15_ProbeReapsAndFlags ==
    /\ [][(pc = "test_read" /\ pc' # "test_read") =>
             /\ pc' = "test_reap"
             /\ loggable' = (IF probe = "out" THEN loggable ELSE 0)]_vars
    /\ [][(pc = "test_reap" /\ pc' # "test_reap") =>
             pc' = "check" /\ probe' = "none" /\ loggable' = loggable]_vars
    /\ [][loggable' # loggable => pc = "test_read" /\ probe # "out"]_vars
    /\ [](pc \notin {"test_read", "test_reap"} => probe = "none")

\* test_logcat has returned after a read that got no byte: loggable is 0
\* and the child is reaped
C15_Witness ==
    /\ pc = "check"
    /\ loggable = 0
    /\ probe = "none"
    /\ line # <<>>

(***************************************************************************)
(* C16.  After every line read while RUNNING, a continuation line          *)
(* included, the loop goes on to the liveness check before it reads again; *)
(* and a liveness check made when logcat has died leaves the read loop for *)
(* the cleanup.                                                            *)
(***************************************************************************)
C16_LivenessCheckedAfterEveryLine ==
    /\ [][(pc = "fgets" /\ Len(pipe') < Len(pipe)) => pc' # "fgets"]_vars
    /\ [][(pc = "alive" /\ producer \in {"zombie", "gone"} /\ pc' # "alive") =>
             pc' = "cleanup"]_vars

(***************************************************************************)
(* C17.  Whenever the loop has left the read loop for the cleanup (EOF or  *)
(* a failed liveness check), it eventually is reading from a new logcat or *)
(* has returned with logging disabled, whatever the probe child does: also *)
(* when that child neither writes nor ends.                                *)
(***************************************************************************)
C17_RestartingLeadsToRunningOrDisabled ==
    (pc = "cleanup") ~> (pc = "fgets" \/ pc = "done")

C19_HandleTracksAcceptor ==
    /\ [](~NoThread(thread) => thread \in Acceptors)
    /\ [](newtid # -1 => pc = "rearm_store" /\ newtid \in Acceptors)
    /\ [][thread' # thread =>
             \/ pc = "rearm_store" /\ thread' = newtid /\ thread' \in Acceptors'
             \/ /\ NoThread(thread')
                /\ thread \in Acceptors /\ apc[thread] = "exit"
                /\ Acceptors' = {}]_vars

\* the new socket_thread has run ahead of the store of its handle: it has
\* accepted a subscriber and waits for the mutex that the pass still holds
C19_Witness ==
    /\ pc = "rearm_store"
    /\ NoThread(thread)
    /\ apc[newtid] = "lock"
    /\ lock = Main

(***************************************************************************)
(* C20.  No line leaves the stream other than by being read: every         *)
(* complete line logcat wrote is returned by fgets before the stream is    *)
(* closed, also when the loop leaves the read loop on a failed liveness    *)
(* check.                                                                  *)
(***************************************************************************)
C20_NoEmittedLineDropped ==
    [][Len(pipe') < Len(pipe) =>
          pc = "fgets" /\ line' = Head(pipe) /\ pipe' = Tail(pipe)]_vars

(***************************************************************************)
(* C20, amended.  When the loop leaves the read loop at end of file, every *)
(* line logcat wrote has been read, and every line read that is not a      *)
(* continuation line goes to the pass; lines are discarded unread only by  *)
(* the cleanup after a failed liveness check, when logcat is gone.         *)
(***************************************************************************)
C20_LinesDroppedOnlyOnFailedCheck ==
    /\ [][(pc = "fgets" /\ pc' = "cleanup") => pipe = <<>> /\ pipe' = <<>>]_vars
    /\ [][(pc' = "cleanup" /\ pc # "cleanup") =>
             \/ pc = "fgets"
             \/ pc = "alive" /\ producer = "gone"]_vars
    /\ [][Len(pipe') < Len(pipe) =>
             \/ /\ pc = "fgets" /\ line' = Head(pipe) /\ pipe' = Tail(pipe)
                /\ pc' = (IF Head(Head(pipe)) = "-" THEN "fgets" ELSE "lock")
             \/ pc = "cleanup" /\ producer = "gone"]_vars

\* the loop has left the read loop at end of file, after it read a line:
\* logcat has ended and is not yet reaped, and the stream is empty
C20_Witness ==
    /\ pc = "cleanup"
    /\ producer = "zombie"
    /\ pipe = <<>>
    /\ line = LineProc

====
